---- MODULE Spec2Model ----
(***************************************************************************)
(* The concurrent download engine of src/main.py: the shared deque of      *)
(* download tasks, the pool of worker_task loops, download_image with the  *)
(* retrying session and the FileExistenceCache, the locked completion      *)
(* counter, the print_progress thread and process_game_images.             *)
(*                                                                         *)
(* Threads interleave at the granularity of the operations on shared       *)
(* state: one action per popleft, makedirs, cache query, HTTP attempt,     *)
(* file write, cache record, lock acquisition and counter store.           *)
(***************************************************************************)
EXTENDS Integers, Sequences, FiniteSets, TLC

(* ------------------------------ bounds --------------------------------- *)
\* largest number of worker_task loops a pool runs (main.py passes 20)
MaxWorkers == 2
\* largest number of GameImage records the catalog resolves to
MaxImages == 2
\* how many times process_game_images is run on the same output directory
MaxRuns == 2

(* -------------------------- program constants -------------------------- *)
max_retries == 3

status_forcelist == {500, 502, 504}

Workers == 1..MaxWorkers

\* lock owners: a worker's number, Reporter, or NoOwner when the lock is free
NoOwner == 0
Reporter == MaxWorkers + 1

(* ------------------------------ inputs --------------------------------- *)
\* The destinations a GameImage can resolve to: folder_path is
\* output_dir/platform/game_name/region, image_type the file stem.
Destinations ==
    { [folder_path |-> "out/A/g/r1", image_type |-> "Box"],
      [folder_path |-> "out/A/g/r2", image_type |-> "Box"] }

\* Content-Type headers, as the words 'in' can find in them; <<>> is an
\* absent header (headers.get('Content-Type', '') gives '').
CT_png  == <<"image", "png">>
CT_gif  == <<"image", "gif">>
CT_jpeg == <<"image", "jpeg">>
CT_none == <<>>

\* What the image server answers to the successive requests for one file:
\* the HTTP status of each attempt (the last one repeats) and the
\* Content-Type of a successful answer.
Servers ==
    { [statuses |-> <<200>>,                     content_type |-> CT_png],
      [statuses |-> <<404>>,                     content_type |-> CT_none],
      [statuses |-> <<502, 502, 200>>,           content_type |-> CT_none],
      [statuses |-> <<500, 500, 500, 500, 200>>, content_type |-> CT_gif],
      [statuses |-> <<504, 503>>,                content_type |-> CT_jpeg] }

VARIABLES
    images,        \* the catalog's GameImage records, in queue order
    max_workers,   \* the max_workers argument of process_game_images
    run,           \* which run of process_game_images this is
    main_pc,       \* position of process_game_images
    image_queue,   \* the deque of tasks (indices into images)
    total_images,  \* len(image_queue) at line 212
    dirs,          \* directories that exist on disk
    files,         \* file paths that exist on disk
    files_before,  \* files as they were when this run started
    cache,         \* FileExistenceCache.cache: path -> BOOLEAN
    completed,     \* progress['completed']
    lock,          \* owner of progress['lock']
    pc,            \* position of each worker_task
    task,          \* the task a worker dequeued last (0: none)
    retry_total,   \* Retry.total left in the worker's current session.get
    full_file_path,\* the worker's local full_file_path
    loaded,        \* the value of progress['completed'] a worker read for +=
    results,       \* each worker's results list
    session,       \* the session create_session_with_retries built
    reporter_pc,   \* position of print_progress
    harvested,     \* futures whose result() the orchestrator consumed
    printed,       \* result lines the orchestrator printed, per task
    popped,        \* history: how many times each task was dequeued
    requests,      \* history: HTTP requests issued for each task, this run
    writes,        \* history: file writes done for each task, this run
    counted,       \* history: counter increments made for each task, this run
    fs_failed,     \* history: tasks that hit an OSError, this run
    net_failed,    \* history: tasks whose fetch raised a RequestException, this run
    queried_late,  \* history: tasks whose cache query came after a task with
                   \* the same destination had written and recorded its file
    first_run_all_downloaded  \* history: run 1 ended with every task downloaded

vars == << images, max_workers, run, main_pc, image_queue, total_images, dirs, files,
           files_before, cache, completed, lock, pc, task, retry_total,
           full_file_path, loaded, results, session, reporter_pc, harvested, printed,
           popped, requests, writes, counted, fs_failed, net_failed,
           queried_late, first_run_all_downloaded >>

(* ------------------------------ helpers -------------------------------- *)
Tasks == 1..Len(images)

\* os.path.join(folder_path, f"{image_type}"): the destination without
\* its extension
Stem(image) == image.dest.folder_path \o "/" \o image.dest.image_type

\* os.path.exists
path_exists(path) == path \in files \/ path \in dirs

\* a memo that stores True whatever the disk says
file_exists_cache_true(path) ==
    IF path \notin DOMAIN cache
    THEN (path :> TRUE) @@ cache
    ELSE cache

\* FileExistenceCache.file_exists: the cache after the query
file_exists_cache(path) ==
    IF path \notin DOMAIN cache
    THEN (path :> path_exists(path)) @@ cache
    ELSE cache

\* a file_exists that answers whether the path was cached already
file_exists_was_cached(path) == path \in DOMAIN cache

\* FileExistenceCache.file_exists: the value returned
file_exists(path) == file_exists_cache(path)[path]

\* file_cache.cache[full_file_path] = True
cache_record(path) == (path :> TRUE) @@ cache

NoSession == [mounted |-> FALSE, total |-> 0, status_forcelist |-> {}]

\* a session whose budget counts attempts instead of retries
create_session_counting_attempts(retries) ==
    [mounted |-> TRUE, total |-> retries - 1, status_forcelist |-> status_forcelist]

\* the Retry policy the session's adapters carry
create_session_with_retries(retries) ==
    [mounted |-> TRUE, total |-> retries, status_forcelist |-> status_forcelist]

\* The answer to the n-th request for an image (the last status repeats)
StatusAt(image, n) ==
    LET s == image.server.statuses
    IN  IF n <= Len(s) THEN s[n] ELSE s[Len(s)]

\* a policy that retries every server error
is_retry_any_5xx(status) == status >= 500

\* Retry: a status of the forcelist is retried
is_retry(status) == status \in session.status_forcelist

\* Retry.increment followed by is_exhausted: the budget after one more
\* retry, which is spent once it is negative
retry_increment(total) == total - 1
is_exhausted(total) == total < 0

\* response.raise_for_status()
raise_for_status(status) == status >= 400 /\ status < 600

\* 'word' in content_type
Contains(content_type, word) ==
    \E i \in 1..Len(content_type) : content_type[i] = word

\* an extension choice that tests 'gif' before 'png'
Ext_gif_first(content_type) ==
    IF Contains(content_type, "gif") THEN ".gif"
    ELSE IF Contains(content_type, "png") THEN ".png"
    ELSE ".jpg"

\* the extension chosen from the Content-Type header
Ext(content_type) ==
    IF Contains(content_type, "png") THEN ".png"
    ELSE IF Contains(content_type, "gif") THEN ".gif"
    ELSE ".jpg"

\* a handler that lets request errors through
download_image_catches_nothing(exception) == FALSE

\* except requests.exceptions.RequestException, around the body of
\* download_image after makedirs
download_image_catches(exception) == exception = "RequestException"

\* except IndexError in worker_task
worker_task_catches(exception) == exception = "IndexError"

\* a dequeue that reads the head and leaves it in the queue
popleft_keeps_head(queue) == queue

\* image_queue.popleft(): the queue that is left
popleft(queue) == Tail(queue)

\* an increment that does not wait for the lock
lock_ignored(owner) == TRUE

\* progress['lock'] can be taken
lock_free(owner) == owner = NoOwner

\* a test that never finds the task set empty
no_images_never(n) == n < 0

\* a loop test that stops one short of the total
below_total_minus_one(n, total) == n < total - 1

\* while progress['completed'] < total_images
below_total(n, total) == n < total

\* a join that does not wait
thread_not_awaited(position) == TRUE

\* progress_thread.join() returns once print_progress has returned
thread_joined(position) == position = "done"

\* if total_images == 0: return
no_images(n) == n = 0

\* not result.startswith("Skipped")
is_printed(kind) == kind # "Skipped"

Result(t, kind, path) == [task |-> t, kind |-> kind, path |-> path]

ResultsOf(t) ==
    { r \in UNION { { results[w][i] : i \in 1..Len(results[w]) } : w \in Workers } :
        r.task = t }

\* the worker_task calls submitted to the executor: range(max_workers)
Pool == 1..max_workers

Finished(w) == pc[w] \in {"exited", "dead"}

(* ------------------------------- Init ---------------------------------- *)
ImageRecords == [dest : Destinations, server : Servers]

Catalogs == UNION { [1..m -> ImageRecords] : m \in 0..MaxImages }

AllStems == { d.folder_path \o "/" \o d.image_type : d \in Destinations }
AllFolders == { d.folder_path : d \in Destinations }
FolderOfStem(p) ==
    (CHOOSE d \in Destinations : d.folder_path \o "/" \o d.image_type = p).folder_path

Init ==
    /\ images \in Catalogs
    /\ max_workers \in Workers
    /\ run = 1
    /\ main_pc = "check"
    /\ image_queue = [i \in 1..Len(images) |-> i]
    /\ total_images = Len(images)
    /\ files \in SUBSET AllStems
    /\ dirs \in { d \in SUBSET AllFolders : \A p \in files : FolderOfStem(p) \in d }
    /\ files_before = files
    /\ cache = << >>
    /\ completed = 0
    /\ lock = NoOwner
    /\ pc = [w \in Workers |-> "unstarted"]
    /\ task = [w \in Workers |-> 0]
    /\ retry_total = [w \in Workers |-> 0]
    /\ full_file_path = [w \in Workers |-> ""]
    /\ loaded = [w \in Workers |-> 0]
    /\ results = [w \in Workers |-> << >>]
    /\ session = NoSession
    /\ reporter_pc = "unstarted"
    /\ harvested = {}
    /\ printed = [t \in Tasks |-> 0]
    /\ popped = [t \in Tasks |-> 0]
    /\ requests = [t \in Tasks |-> 0]
    /\ writes = [t \in Tasks |-> 0]
    /\ counted = [t \in Tasks |-> 0]
    /\ fs_failed = {}
    /\ net_failed = {}
    /\ queried_late = {}
    /\ first_run_all_downloaded = FALSE

\* The state at line 212 for a catalog drawn from the given set
InitFrom(catalogs) ==
    /\ images \in catalogs
    /\ max_workers \in Workers
    /\ run = 1
    /\ main_pc = "check"
    /\ image_queue = [i \in 1..Len(images) |-> i]
    /\ total_images = Len(images)
    /\ files \in SUBSET AllStems
    /\ dirs \in { d \in SUBSET AllFolders : \A p \in files : FolderOfStem(p) \in d }
    /\ files_before = files
    /\ cache = << >>
    /\ completed = 0
    /\ lock = NoOwner
    /\ pc = [w \in Workers |-> "unstarted"]
    /\ task = [w \in Workers |-> 0]
    /\ retry_total = [w \in Workers |-> 0]
    /\ full_file_path = [w \in Workers |-> ""]
    /\ loaded = [w \in Workers |-> 0]
    /\ results = [w \in Workers |-> << >>]
    /\ session = NoSession
    /\ reporter_pc = "unstarted"
    /\ harvested = {}
    /\ printed = [t \in Tasks |-> 0]
    /\ popped = [t \in Tasks |-> 0]
    /\ requests = [t \in Tasks |-> 0]
    /\ writes = [t \in Tasks |-> 0]
    /\ counted = [t \in Tasks |-> 0]
    /\ fs_failed = {}
    /\ net_failed = {}
    /\ queried_late = {}
    /\ first_run_all_downloaded = FALSE

\* Content-Type headers of successful responses: the three image types, an
\* absent header, a header naming both 'gif' and 'png', and a type that
\* names neither
CT_both == <<"image", "gif", "png">>
CT_html == <<"text", "html">>

ContentTypes == { CT_png, CT_gif, CT_jpeg, CT_none, CT_both, CT_html }

\* servers that answer 200 at once, with each of the content types
ExtServers == { [statuses |-> <<200>>, content_type |-> ct] : ct \in ContentTypes }

ExtCatalogs ==
    UNION { [1..m -> [dest : Destinations, server : ExtServers]] : m \in 1..MaxImages }

InitExt == InitFrom(ExtCatalogs)

(* ----------------------------- worker_task ----------------------------- *)
\* download_image returns a result: results.append(result) follows
Return(w, kind, path) ==
    /\ results' = [results EXCEPT ![w] = Append(@, Result(task[w], kind, path))]
    /\ pc' = [pc EXCEPT ![w] = "acquire"]

\* An exception raised inside download_image, inside its try block or not:
\* caught there it becomes a "Failed" result, caught by worker_task's
\* except IndexError it ends the loop, otherwise it ends the worker and
\* is kept in its future.
Raise(w, exception, in_try) ==
    IF in_try /\ download_image_catches(exception)
    THEN Return(w, "Failed", "")
    ELSE /\ pc' = [pc EXCEPT ![w] =
                     IF worker_task_catches(exception) THEN "exited" ELSE "dead"]
         /\ UNCHANGED results

\* image, game_info = image_queue.popleft(), or IndexError on an empty deque
PopLeft(w) ==
    /\ pc[w] = "pop"
    /\ IF image_queue = << >>
       THEN /\ pc' = [pc EXCEPT ![w] =
                        IF worker_task_catches("IndexError") THEN "exited" ELSE "dead"]
            /\ UNCHANGED << image_queue, task, popped >>
       ELSE /\ task' = [task EXCEPT ![w] = Head(image_queue)]
            /\ image_queue' = popleft(image_queue)
            /\ popped' = [popped EXCEPT ![Head(image_queue)] = @ + 1]
            /\ pc' = [pc EXCEPT ![w] = "makedirs"]
    /\ UNCHANGED << queried_late, images, max_workers, run, main_pc, total_images, dirs, files, files_before,
                    cache, completed, lock, retry_total, full_file_path, loaded,
                    results, session, reporter_pc, harvested, printed, requests,
                    writes, first_run_all_downloaded, counted, fs_failed, net_failed >>

\* os.makedirs(folder_path, exist_ok=True), before the try block
MakeDirs(w) ==
    /\ pc[w] = "makedirs"
    /\ LET folder == images[task[w]].dest.folder_path
       IN  \/ /\ dirs' = dirs \cup {folder}
              /\ pc' = [pc EXCEPT ![w] = "file_exists"]
              /\ UNCHANGED << results, fs_failed >>
           \/ /\ folder \notin dirs
              /\ Raise(w, "OSError", FALSE)
              /\ fs_failed' = fs_failed \cup {task[w]}
              /\ UNCHANGED dirs
    /\ UNCHANGED << queried_late, images, max_workers, run, main_pc, image_queue, total_images, files,
                    files_before, cache, completed, lock, task, retry_total,
                    full_file_path, loaded, session, reporter_pc, harvested,
                    printed, popped, requests, writes, first_run_all_downloaded, counted, net_failed >>

\* another task with the same destination has written its file and
\* recorded it in the cache (Record appends its "Downloaded" result)
RecordedBefore(t) ==
    \E u \in Tasks \ {t} :
        /\ Stem(images[u]) = Stem(images[t])
        /\ \E r \in ResultsOf(u) : r.kind = "Downloaded"

\* if file_cache.file_exists(full_file_path): return "Skipped ..."
FileExists(w) ==
    /\ pc[w] = "file_exists"
    /\ LET path == Stem(images[task[w]])
       IN  /\ cache' = file_exists_cache(path)
           /\ full_file_path' = [full_file_path EXCEPT ![w] = path]
           /\ queried_late' =
                 IF RecordedBefore(task[w]) THEN queried_late \cup {task[w]}
                 ELSE queried_late
           /\ IF file_exists(path)
              THEN /\ Return(w, "Skipped", path)
                   /\ UNCHANGED retry_total
              ELSE /\ pc' = [pc EXCEPT ![w] = "get"]
                   /\ retry_total' = [retry_total EXCEPT ![w] = session.total]
                   /\ UNCHANGED results
    /\ UNCHANGED << images, max_workers, run, main_pc, image_queue, total_images, dirs, files,
                    files_before, completed, lock, task, loaded, session,
                    reporter_pc, harvested, printed, popped, requests, writes,
                    first_run_all_downloaded, counted, fs_failed, net_failed >>

\* One HTTP attempt of session.get(url), then response.raise_for_status()
\* and the choice of the extension when the response is returned.
Get(w) ==
    /\ pc[w] = "get"
    /\ LET t      == task[w]
           status == StatusAt(images[t], requests[t] + 1)
       IN  /\ requests' = [requests EXCEPT ![t] = @ + 1]
           /\ IF is_retry(status)
              THEN IF is_exhausted(retry_increment(retry_total[w]))
                   THEN /\ Raise(w, "RequestException", TRUE)
                        /\ net_failed' = net_failed \cup {t}
                        /\ UNCHANGED << retry_total, full_file_path >>
                   ELSE /\ retry_total' =
                             [retry_total EXCEPT ![w] = retry_increment(@)]
                        /\ UNCHANGED << pc, results, full_file_path, net_failed >>
              ELSE IF raise_for_status(status)
                   THEN /\ Raise(w, "RequestException", TRUE)
                        /\ net_failed' = net_failed \cup {t}
                        /\ UNCHANGED << retry_total, full_file_path >>
                   ELSE /\ full_file_path' = [full_file_path EXCEPT ![w] =
                                @ \o Ext(images[t].server.content_type)]
                        /\ pc' = [pc EXCEPT ![w] = "write"]
                        /\ UNCHANGED << retry_total, results, net_failed >>
    /\ UNCHANGED << queried_late, images, max_workers, run, main_pc, image_queue, total_images, dirs, files,
                    files_before, cache, completed, lock, task, loaded, session,
                    reporter_pc, harvested, printed, popped, writes,
                    first_run_all_downloaded, counted, fs_failed >>

\* with open(full_file_path, 'wb') as f: f.write(response.content)
Write(w) ==
    /\ pc[w] = "write"
    /\ \/ /\ files' = files \cup {full_file_path[w]}
          /\ writes' = [writes EXCEPT ![task[w]] = @ + 1]
          /\ pc' = [pc EXCEPT ![w] = "record"]
          /\ UNCHANGED << results, fs_failed >>
       \/ /\ Raise(w, "OSError", TRUE)
          /\ fs_failed' = fs_failed \cup {task[w]}
          /\ UNCHANGED << files, writes >>
    /\ UNCHANGED << queried_late, images, max_workers, run, main_pc, image_queue, total_images, dirs,
                    files_before, cache, completed, lock, task, retry_total,
                    full_file_path, loaded, session, reporter_pc, harvested,
                    printed, popped, requests, first_run_all_downloaded, counted, net_failed >>

\* file_cache.cache[full_file_path] = True; return "Downloaded: ..."
Record(w) ==
    /\ pc[w] = "record"
    /\ cache' = cache_record(full_file_path[w])
    /\ Return(w, "Downloaded", full_file_path[w])
    /\ UNCHANGED << queried_late, images, max_workers, run, main_pc, image_queue, total_images, dirs, files,
                    files_before, completed, lock, task, retry_total,
                    full_file_path, loaded, session, reporter_pc, harvested,
                    printed, popped, requests, writes, first_run_all_downloaded, counted, fs_failed, net_failed >>

\* with progress['lock']: the read half of progress['completed'] += 1
Acquire(w) ==
    /\ pc[w] = "acquire"
    /\ lock_free(lock)
    /\ lock' = w
    /\ loaded' = [loaded EXCEPT ![w] = completed]
    /\ pc' = [pc EXCEPT ![w] = "store"]
    /\ UNCHANGED << queried_late, images, max_workers, run, main_pc, image_queue, total_images, dirs, files,
                    files_before, cache, completed, task, retry_total,
                    full_file_path, results, session, reporter_pc, harvested,
                    printed, popped, requests, writes, first_run_all_downloaded, counted, fs_failed, net_failed >>

\* the store half of progress['completed'] += 1, and the lock's release
Store(w) ==
    /\ pc[w] = "store"
    /\ completed' = loaded[w] + 1
    /\ counted' = [counted EXCEPT ![task[w]] = @ + 1]
    /\ lock' = NoOwner
    /\ pc' = [pc EXCEPT ![w] = "pop"]
    /\ UNCHANGED << queried_late, images, max_workers, run, main_pc, image_queue, total_images, dirs, files,
                    files_before, cache, task, retry_total, full_file_path,
                    loaded, results, session, reporter_pc, harvested, printed,
                    popped, requests, writes, first_run_all_downloaded, fs_failed, net_failed >>

(* ---------------------------- print_progress --------------------------- *)
\* while progress['completed'] < total_images (read without the lock)
ReporterTest ==
    /\ reporter_pc = "test"
    /\ reporter_pc' = IF below_total(completed, total_images) THEN "acquire" ELSE "done"
    /\ UNCHANGED << queried_late, images, max_workers, run, main_pc, image_queue, total_images, dirs, files,
                    files_before, cache, completed, lock, pc, task, retry_total,
                    full_file_path, loaded, results, session, harvested, printed,
                    popped, requests, writes, first_run_all_downloaded, counted, fs_failed, net_failed >>

\* with progress['lock']: completed = progress['completed']
ReporterAcquire ==
    /\ reporter_pc = "acquire"
    /\ lock_free(lock)
    /\ lock' = Reporter
    /\ reporter_pc' = "sample"
    /\ UNCHANGED << queried_late, images, max_workers, run, main_pc, image_queue, total_images, dirs, files,
                    files_before, cache, completed, pc, task, retry_total,
                    full_file_path, loaded, results, session, harvested, printed,
                    popped, requests, writes, first_run_all_downloaded, counted, fs_failed, net_failed >>

\* the lock's release, the status line and time.sleep(0.5)
ReporterPrint ==
    /\ reporter_pc = "sample"
    /\ lock' = NoOwner
    /\ reporter_pc' = "test"
    /\ UNCHANGED << queried_late, images, max_workers, run, main_pc, image_queue, total_images, dirs, files,
                    files_before, cache, completed, pc, task, retry_total,
                    full_file_path, loaded, results, session, harvested, printed,
                    popped, requests, writes, first_run_all_downloaded, counted, fs_failed, net_failed >>

(* -------------------------- process_game_images ------------------------ *)
\* total_images = len(image_queue); if total_images == 0: return.
\* Otherwise the session, the cache and the progress record are created,
\* the reporter thread is started and max_workers worker_task calls are
\* submitted to the executor.
Start ==
    /\ main_pc = "check"
    /\ IF no_images(total_images)
       THEN /\ main_pc' = "returned"
            /\ UNCHANGED << session, cache, completed, lock, reporter_pc, pc >>
       ELSE /\ main_pc' = "pool"
            /\ session' = create_session_with_retries(max_retries)
            /\ cache' = << >>
            /\ completed' = 0
            /\ lock' = NoOwner
            /\ reporter_pc' = "test"
            /\ pc' = [w \in Workers |-> IF w \in Pool THEN "pop" ELSE "unstarted"]
    /\ UNCHANGED << queried_late, images, max_workers, run, image_queue, total_images, dirs, files,
                    files_before, task, retry_total, full_file_path, loaded,
                    results, harvested, printed, popped, requests, writes,
                    first_run_all_downloaded, counted, fs_failed, net_failed >>

\* the lines printed for one worker's results
PrintedBy(w, t) ==
    Cardinality({ i \in 1..Len(results[w]) :
                    results[w][i].task = t /\ is_printed(results[w][i].kind) })

\* for future in as_completed(futures): results = future.result(), which
\* re-raises the exception of a worker that died; the with block then
\* waits for the other workers before the exception leaves it.
Harvest(w) ==
    /\ main_pc = "pool"
    /\ w \notin harvested
    /\ Finished(w)
    /\ IF pc[w] = "dead"
       THEN /\ main_pc' = "raising"
            /\ UNCHANGED << harvested, printed >>
       ELSE /\ harvested' = harvested \cup {w}
            /\ printed' = [t \in Tasks |-> printed[t] + PrintedBy(w, t)]
            /\ UNCHANGED main_pc
    /\ UNCHANGED << queried_late, images, max_workers, run, image_queue, total_images, dirs, files,
                    files_before, cache, completed, lock, pc, task, retry_total,
                    full_file_path, loaded, results, session, reporter_pc,
                    popped, requests, writes, first_run_all_downloaded, counted, fs_failed, net_failed >>

\* the with block ends normally once every future was consumed
PoolExit ==
    /\ main_pc = "pool"
    /\ harvested = Pool
    /\ main_pc' = "join"
    /\ UNCHANGED << queried_late, images, max_workers, run, image_queue, total_images, dirs, files,
                    files_before, cache, completed, lock, pc, task, retry_total,
                    full_file_path, loaded, results, session, reporter_pc,
                    harvested, printed, popped, requests, writes,
                    first_run_all_downloaded, counted, fs_failed, net_failed >>

\* executor.__exit__ has waited for every worker; the worker's exception
\* leaves process_game_images, progress_thread.join() is never reached
Abort ==
    /\ main_pc = "raising"
    /\ \A w \in Pool : Finished(w)
    /\ main_pc' = "aborted"
    /\ UNCHANGED << queried_late, images, max_workers, run, image_queue, total_images, dirs, files,
                    files_before, cache, completed, lock, pc, task, retry_total,
                    full_file_path, loaded, results, session, reporter_pc,
                    harvested, printed, popped, requests, writes,
                    first_run_all_downloaded, counted, fs_failed, net_failed >>

\* progress_thread.join()
Join ==
    /\ main_pc = "join"
    /\ thread_joined(reporter_pc)
    /\ main_pc' = "summary"
    /\ UNCHANGED << queried_late, images, max_workers, run, image_queue, total_images, dirs, files,
                    files_before, cache, completed, lock, pc, task, retry_total,
                    full_file_path, loaded, results, session, reporter_pc,
                    harvested, printed, popped, requests, writes,
                    first_run_all_downloaded, counted, fs_failed, net_failed >>

\* the two summary lines
Summary ==
    /\ main_pc = "summary"
    /\ main_pc' = "done"
    /\ UNCHANGED << queried_late, images, max_workers, run, image_queue, total_images, dirs, files,
                    files_before, cache, completed, lock, pc, task, retry_total,
                    full_file_path, loaded, results, session, reporter_pc,
                    harvested, printed, popped, requests, writes,
                    first_run_all_downloaded, counted, fs_failed, net_failed >>

AllDownloaded == \A t \in Tasks : \E r \in ResultsOf(t) : r.kind = "Downloaded"

\* The program is run again on the same catalog and output directory:
\* the queue is rebuilt, everything in memory is new, the disk is kept.
Rerun ==
    /\ main_pc = "done"
    /\ run < MaxRuns
    /\ run' = run + 1
    /\ first_run_all_downloaded' =
          IF run = 1 THEN AllDownloaded ELSE first_run_all_downloaded
    /\ main_pc' = "check"
    /\ image_queue' = [i \in 1..Len(images) |-> i]
    /\ files_before' = files
    /\ cache' = << >>
    /\ completed' = 0
    /\ lock' = NoOwner
    /\ pc' = [w \in Workers |-> "unstarted"]
    /\ task' = [w \in Workers |-> 0]
    /\ retry_total' = [w \in Workers |-> 0]
    /\ full_file_path' = [w \in Workers |-> ""]
    /\ loaded' = [w \in Workers |-> 0]
    /\ results' = [w \in Workers |-> << >>]
    /\ session' = NoSession
    /\ reporter_pc' = "unstarted"
    /\ harvested' = {}
    /\ printed' = [t \in Tasks |-> 0]
    /\ popped' = [t \in Tasks |-> 0]
    /\ requests' = [t \in Tasks |-> 0]
    /\ writes' = [t \in Tasks |-> 0]
    /\ counted' = [t \in Tasks |-> 0]
    /\ fs_failed' = {}
    /\ net_failed' = {}
    /\ queried_late' = {}
    /\ UNCHANGED << images, max_workers, total_images, dirs, files >>

(* ------------------------------- Next ---------------------------------- *)
Next ==
    \/ Start
    \/ \E w \in Workers : PopLeft(w)
    \/ \E w \in Workers : MakeDirs(w)
    \/ \E w \in Workers : FileExists(w)
    \/ \E w \in Workers : Get(w)
    \/ \E w \in Workers : Write(w)
    \/ \E w \in Workers : Record(w)
    \/ \E w \in Workers : Acquire(w)
    \/ \E w \in Workers : Store(w)
    \/ ReporterTest
    \/ ReporterAcquire
    \/ ReporterPrint
    \/ \E w \in Workers : Harvest(w)
    \/ PoolExit
    \/ Abort
    \/ Join
    \/ Summary
    \/ Rerun

Spec == Init /\ [][Next]_vars

\* one step of worker w other than taking the lock
WorkerStep(w) ==
    \/ PopLeft(w)
    \/ MakeDirs(w)
    \/ FileExists(w)
    \/ Get(w)
    \/ Write(w)
    \/ Record(w)
    \/ Store(w)

ReporterStep == ReporterTest \/ ReporterAcquire \/ ReporterPrint

MainStep ==
    \/ Start
    \/ \E w \in Workers : Harvest(w)
    \/ PoolExit
    \/ Abort
    \/ Join
    \/ Summary

\* Every thread that can take a step eventually takes one, every network
\* and filesystem call returns, and a worker waiting for the lock gets it
\* (the reporter sleeps half a second between two acquisitions). Nothing
\* obliges the operator to run the program again.
Fairness ==
    /\ \A w \in Workers : WF_vars(WorkerStep(w)) /\ SF_vars(Acquire(w))
    /\ WF_vars(ReporterStep)
    /\ WF_vars(MainStep)

\* catalogs of images that are served at once or refused at once
LiveServers == { sv \in Servers : Len(sv.statuses) = 1 }

LiveCatalogs ==
    UNION { [1..m -> [dest : Destinations, server : LiveServers]] : m \in 1..MaxImages }

InitLive == InitFrom(LiveCatalogs)

FairSpec == InitLive /\ [][Next]_vars /\ Fairness

\* the same program on catalogs whose images are all served at once, with
\* every content type
SpecExt == InitExt /\ [][Next]_vars

(* ------------------------------ properties ----------------------------- *)
\* the pool was started in this run
PoolStarted == main_pc \notin {"check", "returned"}

\* every worker_task call has ended, by return or by exception
PoolFinished == PoolStarted /\ \A w \in Pool : Finished(w)

\* results returned by download_image so far, over all workers
NumReturned ==
    Cardinality({ <<w, i>> \in Workers \X (1..MaxImages + 1) : i <= Len(results[w]) })

\* workers between download_image's return and the end of their increment
Pending == { w \in Workers : pc[w] \in {"acquire", "store"} }

Statuses(t) == images[t].server.statuses

HasResult(t, kind) == \E r \in ResultsOf(t) : r.kind = kind

OnlyResult(t, kind) == \A r \in ResultsOf(t) : r.kind = kind

\* the worker that holds task t is at one of the given positions
HolderAt(t, positions) == \E w \in Workers : task[w] = t /\ pc[w] \in positions

\* C1: every enqueued task is dequeued by exactly one worker: no task is
\* dequeued twice, a dequeued task is never back in the queue, and once
\* every worker has exited no task is left in the queue.
C1_EachTaskDequeuedExactlyOnce ==
    /\ \A t \in Tasks : popped[t] <= 1
    /\ \A t \in Tasks :
         popped[t] >= 1 => \A i \in 1..Len(image_queue) : image_queue[i] # t
    /\ PoolFinished => image_queue = << >> /\ \A t \in Tasks : popped[t] = 1

\* C2: once every worker has exited, progress['completed'] equals the
\* total task count.
C2_CompletedIsTotalWhenPoolFinished ==
    PoolFinished => completed = total_images

\* C3, as stated: in every state progress['completed'] equals the number
\* of tasks for which download_image has returned a result.
C3_CompletedEqualsReturned ==
    completed = NumReturned

\* C3, amended: progress['completed'] equals the number of returned results
\* whose worker has finished its locked increment: it is below the number
\* of returned results by exactly the number of workers between
\* download_image's return and the end of their increment; every counted
\* task was counted once, no increment is lost and the counter never
\* exceeds the total task count.
C3_CompletedCountsIncrementedResults ==
    /\ completed = NumReturned - Cardinality(Pending)
    /\ \A t \in Tasks : counted[t] <= 1 /\ Cardinality(ResultsOf(t)) <= 1
    /\ completed = Cardinality({ t \in Tasks : counted[t] = 1 })
    /\ completed <= NumReturned
    /\ NumReturned <= total_images

\* two workers have each returned one result and both increments are in
C3_Witness ==
    /\ completed = 2
    /\ \A w \in Workers : w <= 2 => Len(results[w]) = 1

\* C4: a task whose destination path exists before the run starts issues
\* no network request and download_image returns "Skipped" for it.
C4_ExistingDestinationIsSkipped ==
    \A t \in Tasks :
        Stem(images[t]) \in files_before =>
            /\ requests[t] = 0
            /\ writes[t] = 0
            /\ OnlyResult(t, "Skipped")
            /\ ~HolderAt(t, {"get", "write", "record", "dead"})
            /\ counted[t] = 1 => HasResult(t, "Skipped")

C4_Witness ==
    \E t \in Tasks :
        /\ Stem(images[t]) \in files_before
        /\ HasResult(t, "Skipped")
        /\ counted[t] = 1

\* C5: when every task of the first run was downloaded, the second run
\* (new cache, disk as the first run left it) skips every task and issues
\* no network request.
C5_SecondRunSkipsEverything ==
    (run = 2 /\ first_run_all_downloaded) =>
        \A t \in Tasks : requests[t] = 0 /\ OnlyResult(t, "Skipped")

\* C6: a filesystem error fails its task only: the worker records a failure
\* result for the task and goes on, neither it nor the pool is aborted.
C6_FilesystemErrorFailsTaskOnly ==
    /\ \A t \in fs_failed : HasResult(t, "Failed")
    /\ \A w \in Workers : pc[w] # "dead"
    /\ main_pc \notin {"raising", "aborted"}

\* C7: a task whose fetch ends in a network-level failure gets a "Failed"
\* result returned by download_image; nothing is raised out of the worker,
\* the counter is incremented once for the task and the worker goes back
\* to the queue.
C7_NetworkFailureIsAResult ==
    \A t \in net_failed :
        /\ HasResult(t, "Failed")
        /\ OnlyResult(t, "Failed")
        /\ writes[t] = 0
        /\ ~HolderAt(t, {"dead", "makedirs", "file_exists", "get", "write", "record"})
        /\ \/ counted[t] = 0 /\ HolderAt(t, {"acquire", "store"})
           \/ counted[t] = 1 /\ ~HolderAt(t, {"acquire", "store"})

\* a worker has counted a failed task and has dequeued another one since
C7_Witness ==
    \E t \in net_failed : \E w \in Workers :
        /\ counted[t] = 1
        /\ \E i \in 1..Len(results[w]) : results[w][i].task = t
        /\ task[w] # t
        /\ pc[w] \notin {"exited", "dead"}

IsPrefix(p, s) == Len(p) <= Len(s) /\ \A i \in 1..Len(p) : s[i] = p[i]

\* C8, as stated: answers 502, 502, 200 give a downloaded task; three
\* answers 500 give a failed task and no attempt follows the third.
C8_ThreeAttempts ==
    \A t \in Tasks :
        /\ (IsPrefix(<<502, 502, 200>>, Statuses(t)) /\ requests[t] > 0) =>
              /\ requests[t] <= 3
              /\ OnlyResult(t, "Downloaded")
        /\ (IsPrefix(<<500, 500, 500>>, Statuses(t)) /\ requests[t] > 0) =>
              /\ requests[t] <= 3
              /\ OnlyResult(t, "Failed")

\* C8, amended: max_retries = 3 allows three retries after the first
\* request. Answers 502, 502, 200 end the fetch at the third request and
\* the result returned is "Downloaded"; after three answers 500 a fourth
\* request is made, and four answers 500 give "Failed" with no fifth
\* request.
C8_ThreeRetriesFourAttempts ==
    \A t \in Tasks :
        /\ (IsPrefix(<<502, 502, 200>>, Statuses(t)) /\ requests[t] > 0) =>
              /\ requests[t] <= 3
              /\ OnlyResult(t, "Downloaded")
              /\ requests[t] < 3 => HolderAt(t, {"get"})
              /\ requests[t] = 3 => ~HolderAt(t, {"get"})
        /\ (IsPrefix(<<500, 500, 500, 500>>, Statuses(t)) /\ requests[t] > 0) =>
              /\ requests[t] <= 4
              /\ OnlyResult(t, "Failed")
              /\ requests[t] < 4 => HolderAt(t, {"get"}) /\ ResultsOf(t) = {}
              /\ requests[t] = 4 => HasResult(t, "Failed")

C8_Witness ==
    \E t1, t2 \in Tasks :
        /\ Statuses(t1) = <<502, 502, 200>>
        /\ requests[t1] = 3
        /\ HasResult(t1, "Downloaded")
        /\ IsPrefix(<<500, 500, 500, 500>>, Statuses(t2))
        /\ requests[t2] = 4
        /\ HasResult(t2, "Failed")

\* a 4xx status, or a 5xx status other than 500, 502 and 504
NonRetryable(status) ==
    /\ status >= 400
    /\ status < 600
    /\ status \notin {500, 502, 504}

C10_EmptyTaskSetStartsNothing ==
    total_images = 0 =>
        /\ main_pc \in {"check", "returned"}
        /\ reporter_pc = "unstarted"
        /\ \A w \in Workers : pc[w] = "unstarted"
        /\ completed = 0
        /\ lock = NoOwner
        /\ session = NoSession
        /\ cache = << >>

C10_Witness == total_images = 0 /\ main_pc = "returned"

ContentTypeOf(t) == images[t].server.content_type

Words(content_type) == { content_type[i] : i \in 1..Len(content_type) }

\* the extension a content type asks for: png first, then gif, else jpg
ExpectedExt(content_type) ==
    CASE "png" \in Words(content_type) -> ".png"
      [] "png" \notin Words(content_type) /\ "gif" \in Words(content_type) -> ".gif"
      [] OTHER -> ".jpg"

ExpectedPath(t) == Stem(images[t]) \o ExpectedExt(ContentTypeOf(t))

\* C11: for a successful response the extension appended to the stem is
\* .png when the Content-Type contains 'png', else .gif when it contains
\* 'gif', else .jpg (an absent header included); the file is written at
\* stem + extension and exactly that path is recorded as true in the cache.
C11_ExtensionFollowsContentType ==
    /\ \A w \in Workers :
         pc[w] \in {"write", "record"} =>
            full_file_path[w] = ExpectedPath(task[w])
    /\ \A w \in Workers :
         pc[w] = "record" => full_file_path[w] \in files
    /\ \A t \in Tasks : \A r \in ResultsOf(t) :
         r.kind = "Downloaded" =>
            /\ r.path = ExpectedPath(t)
            /\ r.path \in files
            /\ r.path \in DOMAIN cache
            /\ cache[r.path]
    /\ files = files_before \cup { ExpectedPath(t) : t \in { u \in Tasks : writes[u] > 0 } }
    /\ \A p \in DOMAIN cache :
         \/ p \in AllStems /\ cache[p] = (p \in files_before)
         \/ \E t \in Tasks : p = ExpectedPath(t) /\ HasResult(t, "Downloaded") /\ cache[p]

\* a gif and a header-less response were both stored, as .gif and .jpg
C11_Witness ==
    \E t1, t2 \in Tasks :
        /\ ContentTypeOf(t1) = CT_gif
        /\ ContentTypeOf(t2) = CT_none
        /\ \E r \in ResultsOf(t1) :
              r.kind = "Downloaded" /\ r.path = Stem(images[t1]) \o ".gif"
        /\ \E r \in ResultsOf(t2) :
              r.kind = "Downloaded" /\ r.path = Stem(images[t2]) \o ".jpg"
        /\ Stem(images[t1]) \o ".gif" \in files
        /\ Stem(images[t2]) \o ".jpg" \in files

\* C12: in a run with a non-empty task set where every network and
\* filesystem call returns, under fair scheduling all workers eventually
\* exit, the reporter eventually terminates and the summary is eventually
\* printed.
C12_RunTerminates ==
    (main_pc = "pool") ~>
        (/\ \A w \in Pool : Finished(w)
         /\ reporter_pc = "done"
         /\ main_pc = "done")

\* C13: the reporter terminates only when the counter has reached the
\* total: whenever print_progress has left its loop, progress['completed']
\* >= total_images, and while the counter is below the total the reporter
\* is still in its sampling loop.
C13_ReporterStopsOnlyAtTotal ==
    PoolStarted =>
        /\ reporter_pc = "done" => completed >= total_images
        /\ completed < total_images => reporter_pc \in {"test", "acquire", "sample"}

\* the reporter has ended after two workers counted the two tasks
C13_Witness ==
    /\ reporter_pc = "done"
    /\ completed = 2
    /\ total_images = 2
    /\ max_workers = 2

\* C14: the summary is printed only after every worker has exited and the
\* reporter thread has terminated, so no status line and no task execution
\* comes after it.
C14_SummaryAfterWorkersAndReporter ==
    main_pc \in {"summary", "done"} =>
        /\ \A w \in Pool : Finished(w)
        /\ harvested = Pool
        /\ reporter_pc = "done"
        /\ lock = NoOwner

C14_Witness ==
    /\ main_pc = "done"
    /\ total_images = 2
    /\ max_workers = 2
    /\ \A w \in Pool : Len(results[w]) = 1

\* C15: a task that queries the existence cache after a task with the same
\* destination has written its file and recorded it in the cache observes
\* the update: it is reported skipped and issues no network request.
C15_LateDuplicateIsSkipped ==
    \A t \in queried_late :
        /\ requests[t] = 0
        /\ ~HolderAt(t, {"get", "write", "record"})
        /\ OnlyResult(t, "Skipped")

\* two different workers hold tasks with the same destination
SameDestination(w1, w2) ==
    /\ w1 # w2
    /\ task[w1] # 0
    /\ task[w2] # 0
    /\ task[w1] # task[w2]
    /\ Stem(images[task[w1]]) = Stem(images[task[w2]])

\* C16: the check-then-write sequence of the existence cache is not atomic:
\* while one worker is between its existence check and its cache record,
\* holding no lock, another worker's check of the same destination still
\* answers "absent", so both can request and write the same file.
C16_CheckThenWriteNotAtomic ==
    \A w1, w2 \in Workers :
        (SameDestination(w1, w2) /\ pc[w1] \in {"get", "write", "record"}) =>
            /\ lock # w1
            /\ pc[w2] = "file_exists" =>
                  /\ lock # w2
                  /\ ~file_exists(Stem(images[task[w2]]))
            /\ pc[w2] \in {"get", "write", "record"} =>
                  /\ requests[task[w1]] > 0 \/ pc[w1] = "get"
                  /\ ~HasResult(task[w2], "Skipped")

\* both workers passed the check, requested, and wrote the same file; both
\* are about to record it
C16_Witness ==
    \E w1, w2 \in Workers :
        /\ SameDestination(w1, w2)
        /\ pc[w1] = "record"
        /\ pc[w2] = "record"
        /\ full_file_path[w1] = full_file_path[w2]
        /\ requests[task[w1]] > 0
        /\ requests[task[w2]] > 0
        /\ writes[task[w1]] = 1
        /\ writes[task[w2]] = 1

\* C17: a worker exits only after a dequeue attempt found the queue empty;
\* the queue never grows, so whenever some worker has exited the queue is
\* empty.
C17_ExitOnlyOnEmptyQueue ==
    \A w \in Workers : Finished(w) => image_queue = << >>

\* C18: once the pool has finished, exactly one line was printed for every
\* dequeued task that ended downloaded or failed, and none for a skipped
\* task.
C18_OneLinePerNonSkippedResult ==
    main_pc \in {"join", "summary", "done", "aborted"} =>
        \A t \in Tasks :
            /\ (HasResult(t, "Downloaded") \/ HasResult(t, "Failed")) => printed[t] = 1
            /\ HasResult(t, "Skipped") => printed[t] = 0

\* paths of the files successful downloads have written in this run
DownloadedPaths ==
    { Stem(images[t]) \o Ext(images[t].server.content_type) :
        t \in { u \in Tasks : writes[u] > 0 } }

\* C19: a task that ends skipped or as a network failure writes no file and
\* records no cache entry; its effects are the directory, at most the
\* memoised cache entry of its stem, one result and one increment.
C19_SkippedAndFailedWriteNothing ==
    /\ \A t \in Tasks :
         (HasResult(t, "Skipped") \/ HasResult(t, "Failed")) =>
            /\ writes[t] = 0
            /\ ~HolderAt(t, {"write", "record"})
            /\ Cardinality(ResultsOf(t)) = 1
            /\ counted[t] <= 1
            /\ Stem(images[t]) \in DOMAIN cache
            /\ HasResult(t, "Skipped") => requests[t] = 0
    /\ files = files_before \cup DownloadedPaths
    /\ \A p \in DOMAIN cache :
         \/ p \in { Stem(images[t]) : t \in Tasks } /\ cache[p] = (p \in files_before)
         \/ p \in DownloadedPaths /\ cache[p]
    /\ (\A t \in Tasks : writes[t] = 0) =>
         /\ files = files_before
         /\ \A p \in DOMAIN cache : cache[p] => p \in files_before

\* both tasks of a run ended without a download, one skipped and one failed
C19_Witness ==
    /\ total_images = 2
    /\ \E t1, t2 \in Tasks :
         /\ HasResult(t1, "Skipped")
         /\ HasResult(t2, "Failed")
         /\ counted[t1] = 1
         /\ counted[t2] = 1
    /\ files = files_before

\* tasks dequeued whose download_image call has not ended
InFlight ==
    { t \in Tasks : popped[t] > 0 /\ ResultsOf(t) = {} /\ t \notin fs_failed }

InDownload == {"makedirs", "file_exists", "get", "write", "record"}

\* C20: the tasks dequeued and not yet finished are at most max_workers,
\* at most one per worker, and queued + in-flight + finished tasks sum to
\* the total task count as long as no worker has died.
C20_InFlightBoundedAndConserved ==
    /\ Cardinality(InFlight) <= max_workers
    /\ \A t \in InFlight :
         Cardinality({ w \in Pool : task[w] = t /\ pc[w] \in InDownload }) = 1
    /\ \A w \in Workers : pc[w] \in InDownload => task[w] \in InFlight
    /\ (\A w \in Workers : pc[w] # "dead") =>
         Len(image_queue) + Cardinality(InFlight) + NumReturned = total_images

\* two tasks are in flight at once, both blocked in a network request
C20_Witness ==
    /\ Cardinality(InFlight) = 2
    /\ \A w \in Pool : pc[w] = "get"
    /\ max_workers = 2

====
